---- MODULE Spec2Model ----
(***************************************************************************)
(* pybaker: the incremental build engine of src/src/pybaker/pybaker.py.    *)
(*                                                                         *)
(* The state is the file system the Builder works on (modification times,  *)
(* object files, the pickled build database), one Builder instance (the    *)
(* current process) and the worker jobs of its thread pool.  Strings are   *)
(* sequences of one-character strings, so that the path arithmetic of the  *)
(* code (rfind, slices, replace) is computed as the code computes it.      *)
(***************************************************************************)
EXTENDS Integers, Sequences, FiniteSets, TLC

\* ------------------------------------------------------------------ bounds
\* The largest worker count a Builder is constructed with.
MaxCores == 2
\* The clock stops at MaxTime: at most MaxTime files are touched in a behaviour.
MaxTime == 2
\* The largest number of build() calls made on one Builder instance.
MaxBuilds == 2

\* The largest number of include lines in a file.
MaxIncludes == 2

\* ------------------------------------------------------- python primitives
\* None where a path is expected (the empty string is no path).
NoPath == <<>>

\* None where a Language is expected.
NoLanguage == [none |-> TRUE]

\* None where a _SourceData is expected.
NoSourceData == [none |-> TRUE]

\* None where a Linker is expected.
NoLinker == "None"

Max2(a, b) == IF a >= b THEN a ELSE b

Min2(a, b) == IF a <= b THEN a ELSE b

\* str.rfind(c): the 0-based index of the last occurrence of c, or -1.
RFind(s, c) ==
    LET I == {i \in 1..Len(s) : s[i] = c}
    IN  IF I = {} THEN -1 ELSE (CHOOSE i \in I : \A j \in I : j <= i) - 1

\* A slice bound as python normalises it: negative counts from the end, then clamp.
PyIdx(n, len) == IF n < 0 THEN Max2(n + len, 0) ELSE Min2(n, len)

\* s[lo:hi]
PySlice(s, lo, hi) ==
    LET a == PyIdx(lo, Len(s))
        b == PyIdx(hi, Len(s))
    IN  IF a >= b THEN <<>> ELSE SubSeq(s, a + 1, b)

\* s[lo:]
PySliceFrom(s, lo) == PySlice(s, lo, Len(s))

\* s.replace(c, d) for one-character c and d.
Replace(s, c, d) == [i \in 1..Len(s) |-> IF s[i] = c THEN d ELSE s[i]]

\* " ".join(flags): every flag is a sequence of words (a flag that holds a blank
\* is a flag of several words); the joined string is the sequence of all words.
RECURSIVE Join(_)
Join(flags) == IF flags = <<>> THEN <<>> ELSE Head(flags) \o Join(Tail(flags))

\* ------------------------------------------------------------- the project
SLASH == "/"

\* Compiler.__init__: the default object extension.
ObjectExtension == <<".", "o">>

SrcA == <<"/", "p", "/", "a", ".", "c">>

SrcB == <<"/", "p", "/", "b", ".", "c">>

SrcC == <<"/", "q", "/", "a", ".", "c", "c">>

HdrH == <<"/", "p", "/", "h", ".", "h">>

Sources == {SrcA, SrcB, SrcC}

Headers == {HdrH}

Files == Sources \cup Headers

\* The build types the model's Builders are constructed with.
BuildTypes == {"debug", "release_fast"}

\* Languages.C() and Languages.CPP() with a working compiler.
LangC ==
    [file_extentions |-> {<<".", "c">>}, compiler |-> "tool",
     object_extension |-> ObjectExtension]

LangCPP ==
    [file_extentions |-> {<<".", "c", "p", "p">>, <<".", "c", "c">>, <<".", "c", "x", "x">>},
     compiler |-> "tool", object_extension |-> ObjectExtension]

\* The languages language_C() and language_CPP() return when no toolchain was
\* detected: their compiler is DEFAULT_C_COMPILER / DEFAULT_CPP_COMPILER, a
\* Compiler_Invalid.
LangCInvalid == [LangC EXCEPT !.compiler = "invalid"]

LangCPPInvalid == [LangCPP EXCEPT !.compiler = "invalid"]

\* Source groups a build script registers (SourcePath), in registration order.
\* `flags` names the list object the group's flags live in: two groups made by one
\* add_paths call refer to the same list.  Directory /p holds a.c and b.c,
\* directory /q holds a.cc.
PathP(cell) ==
    [path |-> <<"/", "p">>, files |-> << <<"a", ".", "c">>, <<"b", ".", "c">> >>,
     flags |-> cell]

PathPa(cell) == [path |-> <<"/", "p">>, files |-> << <<"a", ".", "c">> >>, flags |-> cell]

PathQ(cell) == [path |-> <<"/", "q">>, files |-> << <<"a", ".", "c", "c">> >>, flags |-> cell]

\* The whole project, and the project without b.c.
Project3 == <<PathP(1), PathQ(2)>>

Project2 == <<PathPa(1), PathQ(2)>>

\* The list objects of the flags: one per group.
Cells == {1, 2}

\* The text of every file as the lines the scanner sees, each line split into its
\* tokens (line.split()): a.c includes h.h, the other files include nothing.
HashInclude == <<"#", "i", "n", "c", "l", "u", "d", "e">>

IncludeH == <<HashInclude, <<"\"", "h", ".", "h", "\"">> >>

IncludeA == <<HashInclude, <<"\"", "a", ".", "c", "\"">> >>

IncludeB == <<HashInclude, <<"\"", "b", ".", "c", "\"">> >>

PlainLine == << <<"i", "n", "t">>, <<"x", ";">> >>

\* The include lines that name a file of directory /p.
IncludeLines == {IncludeA, IncludeB, IncludeH}

\* The texts a source file of directory /p may have: up to MaxIncludes include
\* lines, then a line that includes nothing.  The header has one include line or
\* none, a.cc none.
IncludeLists == UNION {[1..n -> IncludeLines] : n \in 0..MaxIncludes}

HeaderLists == {<<>>} \cup {<<l>> : l \in IncludeLines}

Texts ==
    {[f \in Files |-> IF f = SrcC THEN <<PlainLine>>
                      ELSE IF f = HdrH THEN h \o <<PlainLine>>
                      ELSE g[f] \o <<PlainLine>>] :
        g \in [{SrcA, SrcB} -> IncludeLists], h \in HeaderLists}

FileText ==
    [f \in Files |-> IF f = SrcA THEN <<IncludeH, PlainLine>> ELSE <<PlainLine>>]

\* _DatabaseFileContents.__init__
EmptyData == [link_error |-> FALSE, sources |-> <<>>, objects |-> <<>>]

\* build_database.pickle does not exist.
NoFile == [missing |-> TRUE]

\* ---------------------------------------------------------------- state
VARIABLES
    now,          \* the wall clock (datetime.now, and the time a touch stamps)
    mtime,        \* os.stat(f).st_mtime of every file
    present,      \* the header files that exist on disk
    objfile,      \* per build type, the object files in objects_<build type>
    disk,         \* build_database.pickle: NoFile, or the pickled contents
    text,         \* the lines of every file, each line split into its tokens
    build_type,   \* Builder._build_type
    cores,        \* Builder._cores
    linker,       \* Builder._linker: "tool", or NoLinker
    languages,    \* Builder._languages
    source_paths, \* Builder._source_paths
    cells,        \* the contents of the list objects the groups' flags refer to
    error,        \* Builder._error
    should_link,  \* Builder._should_link
    data,         \* Builder._database._data
    pc,           \* "idle", "build" (the pool of _build runs), "save" (_build has
                  \* returned early) or "raised" (an exception left the call)
    nbuilds,      \* build() calls made on this Builder
    files_to_build, \* the list _check returned
    dispatched,   \* how many entries of files_to_build have been submitted
    jobs,         \* per entry of files_to_build, where its _build_file call stands
    flag_str,     \* per entry of files_to_build, the local flag_str of its job
    call,         \* history: what ran last ("new", "env", "build", "link")
    callflags,    \* history: the flags argument of the build() call that ran last
    rule,         \* history: per source, what _check_file decided in that build()
    flag_seen,    \* history: per source, the flag string _check_file compared
    trig,         \* history: per source, the recorded dependencies that were newer
    disk0,        \* history: the persisted database when that build() began
    succ,         \* history: that build() began right after a build() that returned
                  \* success and had the same flags argument
    ncompile,     \* history: per source, compile_file calls in that build()
    okwith,       \* history: per job, the flag strings compile_file succeeded with
    build_ret,    \* history: what that build() returned
    lastbuild,    \* history: how the last build() on this Builder ended
    link_ret,     \* history: what the link() call that ran last returned
    link_called,  \* history: whether that link() invoked the Linker driver
    attempt,      \* history: how the most recent link attempt ended ("none", "ok",
                  \* "failed": the driver failed, "nolinker": there was no driver)
    dirty,        \* history: the build types that had an object compiled since
                  \* their last successful link
    objstale,     \* history: per build type, the sources written since their
                  \* object file of that build type was last written
    resolved      \* history: the _get_deps call made last on its own: the start
                  \* file, the set returned, the files opened in order

envvars == <<now, mtime, present, objfile, disk, text>>

cfgvars == <<build_type, cores, linker, languages, source_paths>>

schedvars == <<files_to_build, dispatched, jobs, flag_str>>

\* The history of the build() call that ran last; cleared by whatever runs next.
buildhist ==
    <<callflags, rule, flag_seen, trig, disk0, succ, ncompile, okwith, build_ret>>

\* The history of the link() call that ran last; cleared by whatever runs next.
linkhist == <<link_ret, link_called>>

vars ==
    <<envvars, cfgvars, cells, error, should_link, data, pc, nbuilds, schedvars, call,
      buildhist, lastbuild, linkhist, attempt, dirty, objstale, resolved>>

\* No _get_deps call was made on its own.
NoResolve == [file |-> NoPath, result |-> {}, scanned |-> <<>>]

NoRule == [f \in Sources |-> "-"]

NoFlags == [f \in Sources |-> <<>>]

NoTrig == [f \in Sources |-> {}]

NoCompile == [f \in Sources |-> 0]

\* The local state of a build() call and its history are dropped.
ClearBuild ==
    /\ files_to_build' = <<>>
    /\ dispatched' = 0
    /\ jobs' = <<>>
    /\ flag_str' = <<>>
    /\ callflags' = <<>>
    /\ rule' = NoRule
    /\ flag_seen' = NoFlags
    /\ trig' = NoTrig
    /\ disk0' = NoFile
    /\ succ' = FALSE
    /\ ncompile' = NoCompile
    /\ okwith' = <<>>
    /\ build_ret' = FALSE

ClearLink ==
    /\ link_ret' = FALSE
    /\ link_called' = FALSE

\* ------------------------------------------------------ the build database
\* A dump that loses the link-error flag.
PickleNoFlag(d) ==
    [link_error |-> FALSE,
     sources |-> {<<k, d.sources[k].dependencies, d.sources[k].last_write_time,
                    d.sources[k].flags>> : k \in DOMAIN d.sources},
     objects |-> {<<b, d.objects[b]>> : b \in DOMAIN d.objects}]

\* pickle.dump: the object graph written out as its entries.
Pickle(d) ==
    [link_error |-> d.link_error,
     sources |-> {<<k, d.sources[k].dependencies, d.sources[k].last_write_time,
                    d.sources[k].flags>> : k \in DOMAIN d.sources},
     objects |-> {<<b, d.objects[b]>> : b \in DOMAIN d.objects}]

\* pickle.load: the object graph rebuilt from its entries.
Unpickle(p) ==
    [link_error |-> p.link_error,
     sources |-> [k \in {e[1] : e \in p.sources} |->
                    LET e == CHOOSE e \in p.sources : e[1] = k
                    IN  [dependencies |-> e[2], last_write_time |-> e[3], flags |-> e[4]]],
     objects |-> [b \in {e[1] : e \in p.objects} |->
                    (CHOOSE e \in p.objects : e[1] = b)[2]]]

\* _BuildDatabase.load: a missing file leaves the in-memory contents as they are.
Load(d, file) == IF file = NoFile THEN d ELSE Unpickle(file)

\* _BuildDatabase.save
Save(d) == Pickle(d)

\* _BuildDatabase.query_source
QuerySource(d, filename) ==
    IF filename \in DOMAIN d.sources THEN d.sources[filename] ELSE NoSourceData

\* _BuildDatabase.update_source
UpdateSource(d, filename, sd) ==
    [d EXCEPT !.sources = [k \in DOMAIN d.sources \cup {filename} |->
                              IF k = filename THEN sd ELSE d.sources[k]]]

\* _BuildDatabase.add_object, its second half: the set is created when the test
\* `build_type not in objects` found none, then the name is added.
AddObject(d, filename, bt, create) ==
    [d EXCEPT !.objects = [b \in DOMAIN d.objects \cup {bt} |->
                              IF b = bt
                              THEN (IF create \/ bt \notin DOMAIN d.objects
                                    THEN {} ELSE d.objects[bt]) \cup {filename}
                              ELSE d.objects[b]]]

\* _BuildDatabase.set_link_error
SetLinkError(d, status) == [d EXCEPT !.link_error = status]

\* ------------------------------------------------- paths, languages, deps
\* os.path.abspath of a path that is absolute and holds no "." or ".." part.
AbsPath(p) == p

\* A lookup that lets the language registered last win.
GetLanguageLast(langs, ext) ==
    LET I == {i \in 1..Len(langs) : ext \in langs[i].file_extentions}
    IN  IF I = {} THEN NoLanguage ELSE langs[CHOOSE i \in I : \A j \in I : i >= j]

\* Builder._get_language: the first registered language that knows the extension.
GetLanguage(langs, ext) ==
    LET I == {i \in 1..Len(langs) : ext \in langs[i].file_extentions}
    IN  IF I = {} THEN NoLanguage ELSE langs[CHOOSE i \in I : \A j \in I : i <= j]

\* The object file name _check_file and _build_file derive for a source file.
ObjFilename(file, language) ==
    LET source_filename == PySlice(file, RFind(file, SLASH) + 1, RFind(file, "."))
        source_filepath == PySlice(file, 0, RFind(file, SLASH))
        obj_prefix == Replace(Replace(source_filepath, SLASH, "_"), ":", "_") \o <<"_">>
    IN  obj_prefix \o source_filename \o language.object_extension

\* str.strip("\"")
RECURSIVE StripQuotes(_)
StripQuotes(s) ==
    IF s = <<>> THEN s
    ELSE IF Head(s) = "\"" THEN StripQuotes(Tail(s))
    ELSE IF s[Len(s)] = "\"" THEN StripQuotes(SubSeq(s, 1, Len(s) - 1))
    ELSE s

\* DependencyScanner_C.scan on a line given as its tokens (line.split()).
Scan(file, tokens) ==
    IF Len(tokens) < 2 THEN NoPath
    ELSE IF tokens[1] # HashInclude /\ ~(tokens[2] # <<>> /\ Head(tokens[2]) = "\"")
    THEN NoPath
    ELSE LET path == PySlice(file, 0, RFind(file, SLASH))
             dep == StripQuotes(tokens[2])
         IN  AbsPath(path \o <<SLASH>> \o dep)

\* os.path.exists answering yes for a file that is not there.
ExistsAlways(f) == TRUE

\* os.path.exists for the files of the project.
Exists(f) == f \in Sources \cup present

\* Every _get_deps call with a set of its own: what the call on a dependency adds
\* is lost to the call that made it.
SharedNot(child, own) == own

\* The set two nested _get_deps calls work on: `result` is one set object, so what
\* the call on a dependency adds is in the set of the call that made it.
Shared(child, own) == child

\* Builder._get_deps: lines k.. of `file`, with the result set passed along.  `r`
\* holds the result set and, in order, the files opened so far.
RECURSIVE GetDepsFrom(_, _, _)
GetDepsFrom(file, k, r) ==
    IF k > Len(text[file]) THEN r
    ELSE LET dep == Scan(file, text[file][k])
         IN  IF dep = NoPath \/ dep \in r.result \/ ~Exists(dep)
             THEN GetDepsFrom(file, k + 1, r)
             ELSE LET own == r.result \cup {dep}
                      sub == GetDepsFrom(dep, 1,
                                 [result |-> own, scanned |-> Append(r.scanned, dep)])
                  IN  GetDepsFrom(file, k + 1,
                          [result |-> Shared(sub.result, own), scanned |-> sub.scanned])

\* _get_deps(file, lang): the call a job makes, result = None.
Resolve(file) == GetDepsFrom(file, 1, [result |-> {}, scanned |-> <<file>>])

GetDeps(file) == Resolve(file).result

\* ------------------------------------------------------------- the check
\* The local state of one _check call: the flag lists, the error flag, the file
\* times, the list built so far, and whether an exception has been raised.
CheckState0 ==
    [cells |-> cells, error |-> error, mtime |-> mtime, result |-> <<>>,
     raised |-> FALSE, rule |-> NoRule, flag_seen |-> NoFlags]

\* The comparison with `>=` in place of `>`.
NewerOrEqual(t, recorded) == t >= recorded

\* The comparison of rule 3 and of rule 5: strictly newer.
Newer(t, recorded) == t > recorded

\* Rule 5 with os.utime applied to every file of the project.
BumpTimeAll(st, file) == [st EXCEPT !.mtime = [x \in DOMAIN @ |-> now]]

\* Rule 5 with its os.utime call left out.
BumpTimeSkipped(st, file) == st

\* Rule 5: os.utime(file, (now, now)) moves the source's time to the present.
BumpTime(st, file) == [st EXCEPT !.mtime[file] = now]

\* An unsupported language that is reported and not made an error.
OnUnsupportedSilent(st, file) == [st EXCEPT !.rule[file] = "unsupported"]

\* _check_file when no registered language knows the extension: the error flag
\* is set and nothing is returned.
OnUnsupported(st, file) == [st EXCEPT !.error = TRUE, !.rule[file] = "unsupported"]

\* _check_file with its test of the error flag left out.
CheckSkipsNever(st) == FALSE

\* The second test of _check_file: `if self._error: return`.
CheckSkips(st) == st.error

\* Builder._check_file.  `cell` is the list object holding the group's flags, `db`
\* the loaded database.  The recorded dependencies are a set, so the order in which
\* the loop of rule 5 visits them is not fixed: with `missing_first` a dependency
\* that no longer exists is reached (os.stat raises) before a newer one.
CheckFile(file, cell, st, db, missing_first) ==
    LET ext == PySliceFrom(file, RFind(file, "."))
        flags == Join(st.cells[cell])
        language == GetLanguage(languages, ext)
        seen == [st EXCEPT !.flag_seen[file] = flags]
    IN  IF language = NoLanguage
        THEN OnUnsupported(seen, file)
        ELSE IF CheckSkips(st)
        THEN [seen EXCEPT !.rule[file] = "skipped"]
        ELSE
          LET obj_filename == ObjFilename(file, language)
              sf == [path |-> file, flags |-> cell, lang |-> language]
              d == QuerySource(db, file)
              time_stamp == st.mtime[file]
              Rebuild(r) == [seen EXCEPT !.result = Append(@, sf), !.rule[file] = r]
          IN  IF obj_filename \notin objfile[build_type] THEN Rebuild("1")
              ELSE IF d = NoSourceData THEN Rebuild("2")
              ELSE IF Newer(time_stamp, d.last_write_time) THEN Rebuild("3")
              ELSE IF d.flags # flags THEN Rebuild("4")
              ELSE
                LET missing == {x \in d.dependencies : ~Exists(x)}
                    newer == {x \in d.dependencies :
                                Exists(x) /\ Newer(st.mtime[x], d.last_write_time)}
                IN  IF missing # {} /\ (newer = {} \/ missing_first)
                    THEN [seen EXCEPT !.raised = TRUE, !.rule[file] = "raised"]
                    ELSE IF newer # {}
                    THEN BumpTime(Rebuild("5"), file)
                    ELSE [seen EXCEPT !.rule[file] = "fresh"]

\* Builder._check_source_path, from the i-th file of the group on.
RECURSIVE CheckSourcePath(_, _, _, _, _)
CheckSourcePath(path, i, st, db, missing_first) ==
    IF st.raised \/ i > Len(path.files) THEN st
    ELSE LET full_file_path == AbsPath(path.path \o <<SLASH>> \o path.files[i])
         IN  CheckSourcePath(path, i + 1,
                 CheckFile(full_file_path, path.flags, st, db, missing_first),
                 db, missing_first)

\* Builder._check, from the g-th source group on: `path.flags += flags` extends
\* the group's list object in place, then the group is checked.
RECURSIVE Check(_, _, _, _, _)
Check(g, flags, st, db, missing_first) ==
    IF st.raised \/ g > Len(source_paths) THEN st
    ELSE LET path == source_paths[g]
             extended == [st EXCEPT !.cells[path.flags] = @ \o flags]
         IN  Check(g + 1, flags, CheckSourcePath(path, 1, extended, db, missing_first),
                   db, missing_first)

\* ----------------------------------------------------- the initial states
\* A project that was never built.
FreshProject ==
    /\ now = 0
    /\ mtime = [f \in Files |-> 0]
    /\ present = Headers
    /\ objfile = [b \in BuildTypes |-> {}]
    /\ disk = NoFile
    /\ text = FileText

\* Builder.__init__, add_language and add_source_path have run; no call yet.
Constructed(bt, n, lk, langs, paths) ==
    /\ build_type = bt
    /\ cores = n
    /\ linker = lk
    /\ languages = langs
    /\ source_paths = paths
    /\ cells = [c \in Cells |-> <<>>]
    /\ error = FALSE
    /\ should_link = FALSE
    /\ data = EmptyData
    /\ pc = "idle"
    /\ nbuilds = 0
    /\ files_to_build = <<>>
    /\ dispatched = 0
    /\ jobs = <<>>
    /\ flag_str = <<>>
    /\ call = "new"
    /\ callflags = <<>>
    /\ rule = NoRule
    /\ flag_seen = NoFlags
    /\ trig = NoTrig
    /\ disk0 = NoFile
    /\ succ = FALSE
    /\ ncompile = NoCompile
    /\ okwith = <<>>
    /\ build_ret = FALSE
    /\ lastbuild = "none"
    /\ link_ret = FALSE
    /\ link_called = FALSE
    /\ attempt = "none"
    /\ dirty = {}
    /\ objstale = [b \in BuildTypes |-> {}]
    /\ resolved = NoResolve

\* ------------------------------------------------------------ environment
\* A file is written (or created): its time becomes the new clock time.
Touch(f) ==
    /\ pc = "idle"
    /\ now < MaxTime
    /\ now' = now + 1
    /\ mtime' = [mtime EXCEPT ![f] = now + 1]
    /\ present' = present \cup ({f} \cap Headers)
    /\ objstale' = [b \in BuildTypes |-> objstale[b] \cup ({f} \cap Sources)]
    /\ call' = "env"
    /\ ClearBuild
    /\ ClearLink
    /\ UNCHANGED <<objfile, disk, text, cfgvars, cells, error, should_link, data, pc,
                   nbuilds, lastbuild, attempt, dirty, resolved>>

\* A header file is deleted.
DeleteHeader(h) ==
    /\ pc = "idle"
    /\ h \in present
    /\ present' = present \ {h}
    /\ call' = "env"
    /\ ClearBuild
    /\ ClearLink
    /\ UNCHANGED <<now, mtime, objfile, disk, text, cfgvars, cells, error, should_link,
                   data, pc, nbuilds, lastbuild, attempt, dirty, objstale, resolved>>

\* The process ends (also in the middle of a build, or by an exception) and the
\* build script runs again: Builder.__init__, add_language, add_source_path.
NewBuilder(bt, n, lk, langs, paths) ==
    /\ call # "new"
    /\ build_type' = bt
    /\ cores' = n
    /\ linker' = lk
    /\ languages' = langs
    /\ source_paths' = paths
    /\ cells' = [c \in Cells |-> <<>>]
    /\ error' = FALSE
    /\ should_link' = FALSE
    /\ data' = EmptyData
    /\ pc' = "idle"
    /\ nbuilds' = 0
    /\ call' = "new"
    /\ lastbuild' = "none"
    /\ ClearBuild
    /\ ClearLink
    /\ UNCHANGED <<envvars, attempt, dirty, objstale, resolved>>

\* ------------------------------------------------------------------ build
\* The recorded dependencies of `file` that exist and are newer than the time
\* recorded for it, in database `db`.
NewerDeps(db, file) ==
    IF file \notin DOMAIN db.sources THEN {}
    ELSE {x \in db.sources[file].dependencies :
            Exists(x) /\ mtime[x] > db.sources[file].last_write_time}

\* _build with its test of the worker count left out.
BadCoresNever == FALSE

\* The second test of _build: `if self._cores <= 0`.
BadCores == cores <= 0

\* Builder.build up to the thread pool of _build: load, _check, and the two early
\* returns of _build.  An exception raised by the check leaves build() at once.
BuildStart(flags, missing_first) ==
    /\ pc = "idle"
    /\ nbuilds < MaxBuilds
    /\ LET db == Load(data, disk)
           st == Check(1, flags, CheckState0, db, missing_first)
       IN  /\ data' = db
           /\ cells' = st.cells
           /\ mtime' = st.mtime
           /\ rule' = st.rule
           /\ flag_seen' = st.flag_seen
           /\ trig' = [f \in Sources |-> NewerDeps(db, f)]
           /\ files_to_build' = st.result
           /\ jobs' = [i \in 1..Len(st.result) |-> "new"]
           /\ flag_str' = [i \in 1..Len(st.result) |-> <<>>]
           /\ okwith' = [i \in 1..Len(st.result) |-> {}]
           /\ error' = (st.error \/ (~st.raised /\ BadCores))
           /\ pc' = IF st.raised THEN "raised"
                    ELSE IF st.error \/ BadCores THEN "save"
                    ELSE "build"
    /\ nbuilds' = nbuilds + 1
    /\ dispatched' = 0
    /\ callflags' = flags
    /\ call' = "build"
    /\ ncompile' = NoCompile
    /\ disk0' = disk
    /\ succ' = (call = "build" /\ pc = "idle" /\ ~build_ret /\ callflags = flags)
    /\ build_ret' = FALSE
    /\ ClearLink
    /\ UNCHANGED <<now, present, objfile, disk, text, cfgvars, should_link, lastbuild,
                   attempt, dirty, objstale, resolved>>

\* _build with its wait for the futures of a chunk left out.
ChunkDoneUnwaited == TRUE

\* The jobs of the chunk that was submitted last have all returned
\* (`future.result()` has been taken of each).
ChunkDone == \A i \in 1..dispatched : jobs[i] = "done"

\* The number of files _build submits together: a chunk is full at `cores` files.
ChunkSize == cores

\* The index of the last file of the chunk _build submits next.
ChunkEnd == Min2(dispatched + ChunkSize, Len(files_to_build))

\* `chunk.clear()` left out: a chunk holds the files of the chunks before it too.
ChunkNotCleared == {i \in 1..Len(files_to_build) : i <= ChunkEnd}

\* The entries of files_to_build in that chunk (`chunk.clear()` has emptied the
\* list of the chunk before).
Chunk == {i \in 1..Len(files_to_build) : dispatched < i /\ i <= ChunkEnd}

\* Builder._build, one chunk: the next ChunkSize files (the last chunk may be
\* smaller) are submitted to the pool, once every future of the chunk before has
\* returned.
Dispatch ==
    /\ pc = "build"
    /\ ChunkDone
    /\ dispatched < Len(files_to_build)
    /\ dispatched' = ChunkEnd
    /\ jobs' = [i \in 1..Len(files_to_build) |->
                   IF i \in Chunk THEN "queued" ELSE jobs[i]]
    /\ UNCHANGED <<envvars, cfgvars, cells, error, should_link, data, pc, nbuilds,
                   files_to_build, flag_str, call, buildhist, lastbuild, linkhist, attempt, dirty, objstale, resolved>>

\* ThreadPoolExecutor(max_workers = cores): the threads of the pool.
PoolWorkers == cores

\* The jobs a thread of the pool is running.
Running == {i \in DOMAIN jobs : jobs[i] \in {"compiling", "compiled", "create", "add"}}

\* _build_file with its first test left out: a job compiles whatever failed before.
SkipJobNever == FALSE

\* The first test of _build_file: `if self._error: return`.
SkipJob == error

\* Builder._build_file, its entry, once a thread of the pool takes the job: a job
\* that finds the error flag set returns; any other joins its flags and calls
\* compile_file.
JobStart(i) ==
    /\ pc = "build"
    /\ i \in 1..Len(files_to_build)
    /\ jobs[i] = "queued"
    /\ Cardinality(Running) < PoolWorkers
    /\ IF SkipJob
       THEN /\ jobs' = [jobs EXCEPT ![i] = "done"]
            /\ UNCHANGED <<ncompile, flag_str>>
       ELSE /\ jobs' = [jobs EXCEPT ![i] = "compiling"]
            /\ flag_str' = [flag_str EXCEPT ![i] = Join(cells[files_to_build[i].flags])]
            /\ ncompile' = [ncompile EXCEPT ![files_to_build[i].path] = @ + 1]
    /\ UNCHANGED <<envvars, cfgvars, cells, error, should_link, data, pc, nbuilds,
                   files_to_build, dispatched, call, callflags, rule, flag_seen, trig,
                   disk0, succ, okwith, build_ret, lastbuild, linkhist, attempt, dirty, objstale, resolved>>

\* _build_file with its test of compile_file's result left out: the bookkeeping
\* runs after a failed compile too.
AfterCompileUnchecked(failed) == "compiled"

\* What _build_file does when compile_file has returned `failed`: the job returns
\* (the error flag is set), or it goes on to its bookkeeping.
AfterCompile(failed) == IF failed THEN "done" ELSE "compiled"

\* What compile_file returns (True is failure).  A driver that runs a compiler
\* returns whether the process failed (`exit`); Compiler_Invalid prints its error
\* and returns False.
CompileFile(compiler, exit) == IF compiler = "invalid" THEN FALSE ELSE exit

\* compile_file returns: the compiler process, if one was run, has ended.  A
\* successful run has written the object file; a failed one, and the invalid
\* driver, leave the object directory as it was.  okwith records the flags a
\* compile_file call reported success with.
CompileEnd(i, exit) ==
    /\ pc = "build"
    /\ i \in 1..Len(files_to_build)
    /\ jobs[i] = "compiling"
    /\ LET sf == files_to_build[i]
           failed == CompileFile(sf.lang.compiler, exit)
       IN  /\ jobs' = [jobs EXCEPT ![i] = AfterCompile(failed)]
           /\ error' = (error \/ failed)
           /\ okwith' = IF failed THEN okwith
                        ELSE [okwith EXCEPT ![i] = @ \cup {Join(cells[sf.flags])}]
           /\ IF failed \/ sf.lang.compiler = "invalid"
              THEN UNCHANGED <<objfile, dirty, objstale>>
              ELSE /\ objfile' = [objfile EXCEPT ![build_type] =
                                     @ \cup {ObjFilename(sf.path, sf.lang)}]
                   /\ dirty' = dirty \cup {build_type}
                   /\ objstale' = [objstale EXCEPT ![build_type] = @ \ {sf.path}]
    /\ UNCHANGED <<now, mtime, present, disk, cfgvars, cells, should_link, data, pc,
                   nbuilds, files_to_build, dispatched, flag_str, call, callflags, rule,
                   flag_seen, trig, disk0, succ, ncompile, build_ret, lastbuild, linkhist,
                   attempt, text, resolved>>

\* The _SourceData a job records for its file.
SourceDataOf(i) ==
    [dependencies |-> GetDeps(files_to_build[i].path),
     last_write_time |-> mtime[files_to_build[i].path],
     flags |-> flag_str[i]]

\* _build_file after a successful compile: the should-link flag, the dependency
\* scan, the new _SourceData, update_source, and the test add_object begins with.
Bookkeep(i) ==
    /\ pc = "build"
    /\ i \in 1..Len(files_to_build)
    /\ jobs[i] = "compiled"
    /\ data' = UpdateSource(data, files_to_build[i].path, SourceDataOf(i))
    /\ should_link' = TRUE
    /\ jobs' = [jobs EXCEPT ![i] =
                   IF build_type \notin DOMAIN data.objects THEN "create" ELSE "add"]
    /\ UNCHANGED <<envvars, cfgvars, cells, error, pc, nbuilds, files_to_build,
                   dispatched, flag_str, call, buildhist, lastbuild, linkhist, attempt, dirty, objstale, resolved>>

\* add_object after its test: the build type's set is created if the test found
\* none, and the object name is added.
AddObjectStep(i) ==
    /\ pc = "build"
    /\ i \in 1..Len(files_to_build)
    /\ jobs[i] \in {"create", "add"}
    /\ LET sf == files_to_build[i]
       IN  data' = AddObject(data, ObjFilename(sf.path, sf.lang), build_type,
                             jobs[i] = "create")
    /\ jobs' = [jobs EXCEPT ![i] = "done"]
    /\ UNCHANGED <<envvars, cfgvars, cells, error, should_link, pc, nbuilds,
                   files_to_build, dispatched, flag_str, call, buildhist, lastbuild,
                   linkhist, attempt, dirty, objstale, resolved>>

\* _build returning while futures are pending.
PoolDoneUnwaited == TRUE

\* _build returns from its pool: every file was submitted and the `with` block of
\* the executor has waited for every future.
PoolDone == ChunkDone /\ dispatched = Len(files_to_build)

\* Builder.build after _build: the database is saved and the error flag returned.
BuildEnd ==
    /\ \/ pc = "save"
       \/ pc = "build" /\ PoolDone
    /\ disk' = Save(data)
    /\ build_ret' = error
    /\ pc' = "idle"
    /\ lastbuild' = IF error THEN "error"
                    ELSE IF files_to_build = <<>> THEN "nothing"
                    ELSE "compiled"
    /\ UNCHANGED <<now, mtime, present, objfile, text, cfgvars, cells, error, should_link,
                   data, nbuilds, schedvars, call, callflags, rule, flag_seen, trig, disk0,
                   succ, ncompile, okwith, linkhist, attempt, dirty, objstale, resolved>>

\* ------------------------------------------------------------------- link
\* link() with its test of the error flag left out.
LinkPathUnguarded ==
    IF ~should_link /\ ~data.link_error THEN "nothing"
    ELSE IF linker = NoLinker THEN "nolinker"
    ELSE IF build_type \notin DOMAIN data.objects THEN "keyerror"
    ELSE "linker"

\* The way link() takes through its tests.
LinkPath ==
    IF error THEN "error"
    ELSE IF ~should_link /\ ~data.link_error THEN "nothing"
    ELSE IF linker = NoLinker THEN "nolinker"
    ELSE IF build_type \notin DOMAIN data.objects THEN "keyerror"
    ELSE "linker"

\* What the Linker driver returns (True is failure): whether the linker process
\* failed (`exit`); Linker_Invalid prints its error and returns True.
LinkerLink(lk, exit) == IF lk = "invalid" THEN TRUE ELSE exit

\* Builder.link.  `exit` is how the linker process ends when one is run.
Link(exit) ==
    /\ pc = "idle"
    /\ call' = "link"
    /\ ClearBuild
    /\ CASE LinkPath \in {"error", "nothing"} ->
              /\ link_ret' = FALSE
              /\ link_called' = FALSE
              /\ UNCHANGED <<disk, data, pc, attempt, dirty>>
         [] LinkPath = "nolinker" ->
              /\ link_ret' = TRUE
              /\ link_called' = FALSE
              /\ attempt' = "nolinker"
              /\ UNCHANGED <<disk, data, pc, dirty>>
         [] LinkPath = "keyerror" ->
              /\ pc' = "raised"
              /\ link_ret' = FALSE
              /\ link_called' = FALSE
              /\ UNCHANGED <<disk, data, attempt, dirty>>
         [] LinkPath = "linker" ->
              LET failed == LinkerLink(linker, exit)
              IN  /\ link_called' = TRUE
                  /\ link_ret' = failed
                  /\ attempt' = IF failed THEN "failed" ELSE "ok"
                  /\ data' = SetLinkError(data, failed)
                  /\ disk' = Save(SetLinkError(data, failed))
                  /\ dirty' = IF failed THEN dirty ELSE dirty \ {build_type}
                  /\ UNCHANGED pc
    /\ UNCHANGED <<now, mtime, present, objfile, text, cfgvars, cells, error, should_link,
                   nbuilds, lastbuild, objstale, resolved>>

\* --------------------------------------------------------- specifications
\* The flags a build() call is given.
CallFlagChoices == {<<>>, << <<"-O">> >>}

\* The order of the rule-5 loop matters only with two recorded dependencies.
MissingFirstChoices == IF Cardinality(Headers) > 1 THEN BOOLEAN ELSE {FALSE}

MaxJobs == Cardinality(Sources)

\* The steps of a running build().
BuildSteps ==
    \/ Dispatch
    \/ \E i \in 1..MaxJobs : JobStart(i)
    \/ \E i \in 1..MaxJobs, failed \in BOOLEAN : CompileEnd(i, failed)
    \/ \E i \in 1..MaxJobs : Bookkeep(i)
    \/ \E i \in 1..MaxJobs : AddObjectStep(i)
    \/ BuildEnd

\* Both languages of the project are registered (add_language, twice).
Both == <<LangC, LangCPP>>

\* The project with one source path.
Project1 == <<PathPa(1)>>

\* The staleness check over the life of a project: the files are written and the
\* header deleted between calls, the build script runs again (after a call has
\* returned or raised) with or without the C language, build() is called with and
\* without flags, and compiles may fail.
Init ==
    /\ FreshProject
    /\ Constructed("debug", 1, "tool", Both, Project2)

Next ==
    \/ \E f \in {SrcA, HdrH} : Touch(f)
    \/ DeleteHeader(HdrH)
    \/ \E langs \in {Both, <<LangCPP>>} :
          pc \in {"idle", "raised"} /\ NewBuilder("debug", 1, "tool", langs, Project2)
    \/ \E flags \in CallFlagChoices, mf \in MissingFirstChoices : BuildStart(flags, mf)
    \/ BuildSteps

Spec == Init /\ [][Next]_vars

\* The scheduler: three source files, one to MaxCores threads, compiles that may
\* fail, and two build() calls on the same Builder.
InitSched ==
    /\ FreshProject
    /\ \E n \in 1..MaxCores : Constructed("debug", n, "tool", Both, Project3)

NextSched ==
    \/ \E f \in Sources : Touch(f)
    \/ BuildStart(<<>>, FALSE)
    \/ BuildSteps

SpecSched == InitSched /\ [][NextSched]_vars

\* Build and link over several runs of the build script: both build types, a bad
\* worker count, a script with no linker, an unsupported language, a linker that
\* may fail.
InitLink ==
    /\ FreshProject
    /\ Constructed("debug", 1, "tool", <<LangC>>, Project1)

NextLink ==
    \/ Touch(SrcA)
    \/ \E bt \in BuildTypes, n \in {0, 1}, lk \in {"tool", NoLinker},
          langs \in {<<LangC>>, <<LangCPP>>} : NewBuilder(bt, n, lk, langs, Project1)
    \/ BuildStart(<<>>, FALSE)
    \/ BuildSteps
    \/ \E failed \in BOOLEAN : Link(failed)

SpecLink == InitLink /\ [][NextLink]_vars

\* The project registered by one add_paths call: both groups refer to one flag
\* list.
ProjectShared == <<PathPa(1), PathQ(1)>>

\* Call flags over several runs of the build script, whose groups have a flag
\* list each or share one; a.c is written between calls and compiles may fail.
InitFlags ==
    /\ FreshProject
    /\ \E paths \in {Project2, ProjectShared} : Constructed("debug", 1, "tool", Both, paths)

NextFlags ==
    \/ Touch(SrcA)
    \/ \E paths \in {Project2, ProjectShared} :
          pc \in {"idle", "raised"} /\ NewBuilder("debug", 1, "tool", Both, paths)
    \/ \E flags \in CallFlagChoices : BuildStart(flags, FALSE)
    \/ BuildSteps

SpecFlags == InitFlags /\ [][NextFlags]_vars

\* The worker counts a build script may pass.
CoreChoices == {-1, 0, 1}

\* The ways a build() fails: the build script runs with a bad worker count, with
\* either language left out, compiles may fail, and the header may be deleted.
InitErr ==
    /\ FreshProject
    /\ Constructed("debug", 1, "tool", Both, Project2)

NextErr ==
    \/ Touch(SrcA)
    \/ DeleteHeader(HdrH)
    \/ \E n \in CoreChoices, langs \in {Both, <<LangC>>, <<LangCPP>>} :
          pc \in {"idle", "raised"} /\ NewBuilder("debug", n, "tool", langs, Project2)
    \/ BuildStart(<<>>, FALSE)
    \/ BuildSteps

SpecErr == InitErr /\ [][NextErr]_vars

\* A machine with no toolchain: the default languages and the default linker are
\* the invalid drivers.
NoToolchain == <<LangCInvalid, LangCPPInvalid>>

\* The languages a build script registers there: the defaults alone, or a C
\* language with a compiler of its own added before or after them, so that two
\* registered languages know the extension ".c".
LanguageOrders == {NoToolchain, <<LangC>> \o NoToolchain, NoToolchain \o <<LangC>>}

\* The build script run on a machine with no toolchain: build(), then link(); the
\* script of a later run registers b.c too, and may register its own C language.
InitInvalid ==
    /\ FreshProject
    /\ Constructed("debug", 1, "invalid", NoToolchain, Project2)

NextInvalid ==
    \/ Touch(SrcA)
    \/ \E bt \in BuildTypes : NewBuilder(bt, 1, "invalid", NoToolchain, Project2)
    \/ \E langs \in LanguageOrders :
          pc = "idle" /\ NewBuilder("debug", 1, "invalid", langs, Project3)
    \/ BuildStart(<<>>, FALSE)
    \/ BuildSteps
    \/ \E exit \in BOOLEAN : Link(exit)

SpecInvalid == InitInvalid /\ [][NextInvalid]_vars

\* Builder.clean_database: os.remove of the database file (which exists).
CleanDatabase ==
    /\ pc = "idle"
    /\ disk # NoFile
    /\ disk' = NoFile
    /\ call' = "clean"
    /\ ClearBuild
    /\ ClearLink
    /\ UNCHANGED <<now, mtime, present, objfile, text, cfgvars, cells, error, should_link,
                   data, pc, nbuilds, lastbuild, attempt, dirty, objstale, resolved>>

\* The administrative clean: build(), clean_database() and build() again, on one
\* Builder or on the Builder of the next run of the build script.
InitClean ==
    /\ FreshProject
    /\ Constructed("debug", 1, "tool", Both, Project2)

NextClean ==
    \/ Touch(SrcA)
    \/ pc = "idle" /\ NewBuilder("debug", 1, "tool", Both, Project2)
    \/ BuildStart(<<>>, FALSE)
    \/ BuildSteps
    \/ CleanDatabase

SpecClean == InitClean /\ [][NextClean]_vars

\* Source directories whose names differ only in a path separator.
NameDirs == {<<"/", "p">>, <<"/", "q">>, <<"/", "p", "/", "q">>, <<"/", "p", "_", "q">>}

\* _build_file up to the end of compile_file, for the one file of group g taken
\* alone: the object name is derived and the compiler writes the object file
\* under that name.
DeriveObject(g) ==
    /\ pc = "idle"
    /\ g \in DOMAIN source_paths
    /\ LET path == source_paths[g]
           file == AbsPath(path.path \o <<SLASH>> \o path.files[1])
           language == GetLanguage(languages, PySliceFrom(file, RFind(file, ".")))
       IN  objfile' = [objfile EXCEPT ![build_type] = @ \cup {ObjFilename(file, language)}]
    /\ UNCHANGED <<now, mtime, present, disk, text, cfgvars, cells, error, should_link,
                   data, pc, nbuilds, schedvars, call, buildhist, lastbuild, linkhist,
                   attempt, dirty, objstale, resolved>>

\* Object names as a function of the path: two groups of one file each, in any
\* two of the directories, under either build type.
InitNames ==
    /\ FreshProject
    /\ \E d1, d2 \in NameDirs, n1, n2 \in {<<"a", ".", "c">>, <<"b", ".", "c">>},
          bt \in BuildTypes :
          Constructed(bt, 1, "tool", Both,
                      <<[path |-> d1, files |-> <<n1>>, flags |-> 1],
                        [path |-> d2, files |-> <<n2>>, flags |-> 2]>>)

NextNames == \E g \in 1..2 : DeriveObject(g)

SpecNames == InitNames /\ [][NextNames]_vars

\* _get_deps called on its own, on a file that exists.
ResolveCall(f) ==
    /\ pc = "idle"
    /\ Exists(f)
    /\ resolved' = [file |-> f, result |-> Resolve(f).result,
                    scanned |-> Resolve(f).scanned]
    /\ UNCHANGED <<envvars, cfgvars, cells, error, should_link, data, pc, nbuilds,
                   schedvars, call, buildhist, lastbuild, linkhist, attempt, dirty, objstale>>

\* Dependency resolution as a function: every include graph over the files of
\* directory /p, with the header there or not, and one call on any file.
InitDeps ==
    /\ now = 0
    /\ mtime = [f \in Files |-> 0]
    /\ present \in SUBSET Headers
    /\ objfile = [b \in BuildTypes |-> {}]
    /\ disk = NoFile
    /\ text \in Texts
    /\ Constructed("debug", 1, "tool", Both, Project3)

NextDeps == \E f \in Files : ResolveCall(f)

SpecDeps == InitDeps /\ [][NextDeps]_vars

\* ------------------------------------------------------------ properties
\* The jobs whose compiler process is running.
Compiling == {i \in DOMAIN jobs : jobs[i] = "compiling"}

\* The paths of the files the check of the running (or last) build() found stale.
StalePaths == {files_to_build[i].path : i \in DOMAIN files_to_build}

\* A build() call has returned success.
BuildSucceeded == call = "build" /\ pc = "idle" /\ ~error

\* C1: with N worker threads, at no moment are more than N compile_file calls in
\* flight, however many files are stale; and a build() whose compiles all succeed
\* has compiled each file its check found stale exactly once, and no other file.
C1_ConcurrencyBound ==
    /\ Cardinality(Compiling) <= cores
    /\ \A f \in Sources : ncompile[f] <= 1
    /\ BuildSucceeded =>
          \A f \in Sources : ncompile[f] = IF f \in StalePaths THEN 1 ELSE 0

\* A build() with more stale files than threads has returned success.
C1_Witness ==
    /\ BuildSucceeded
    /\ cores >= 2
    /\ Len(files_to_build) > cores
    /\ \A f \in StalePaths : ncompile[f] = 1

\* The database on disk says the last link failed.
PersistedLinkError == disk # NoFile /\ disk.link_error

\* Entry sources[p] of the database in memory is written (and not read from disk).
Written(p) ==
    /\ p \in DOMAIN data'.sources
    /\ p \notin DOMAIN data.sources \/ data'.sources[p] # data.sources[p]
    /\ ~(pc = "idle" /\ call' = "build")

\* Job i returns with its compile failed, or without having compiled.
Unsuccessful(i) ==
    /\ i \in DOMAIN jobs
    /\ jobs[i] \in {"queued", "compiling"}
    /\ call' = call
    /\ jobs'[i] = "done"

\* C9: an entry sources[p] is written only by a job for p whose compile returned
\* success, with the flag string that compile was given; a job whose compile
\* fails, or that is skipped because the error flag is set, changes neither the
\* database nor the should-link flag; and the file on disk is only ever a save of
\* the database in memory.
C9_WrittenAfterSuccess ==
    [][/\ \A p \in Sources : Written(p) =>
             \E i \in DOMAIN jobs :
                 /\ files_to_build[i].path = p
                 /\ jobs[i] = "compiled"
                 /\ data'.sources[p].flags \in okwith[i]
       /\ (\E i \in DOMAIN jobs : Unsuccessful(i)) =>
             data' = data /\ should_link' = should_link
       /\ disk' # disk => disk' = Save(data')]_vars

\* A build() has returned failure with one file recorded and the other, stale
\* too, not recorded.
C9_Witness ==
    /\ call = "build"
    /\ pc = "idle"
    /\ error
    /\ \E p, q \in StalePaths :
          /\ ncompile[p] = 1
          /\ p \in DOMAIN data.sources
          /\ q \notin DOMAIN data.sources
          /\ disk # NoFile
          /\ disk.sources = Pickle(data).sources

\* The jobs inside their bookkeeping: update_source is done, add_object is not.
Bookkeeping == {i \in DOMAIN jobs : jobs[i] \in {"create", "add"}}

\* C10: at most one job is inside the bookkeeping section at a time.
C10_MutualExclusion == Cardinality(Bookkeeping) <= 1

\* C2: a build() that follows at once on an error-free build() of the same
\* Builder, with the same flags and nothing changed on disk in between, compiles
\* nothing and leaves the database file as it found it.
C2_Idempotence ==
    (call = "build" /\ succ) =>
        /\ \A f \in Sources : ncompile[f] = 0
        /\ pc = "idle" => disk = disk0

\* C3 as stated: a source one of whose recorded dependencies is newer than its
\* recorded time is compiled by the next build(), and is then at least as new
\* as that dependency.
C3_Original ==
    (call = "build" /\ pc = "idle") =>
        \A A \in Sources : \A B \in trig[A] :
            ncompile[A] >= 1 /\ mtime[A] >= mtime[B]

\* The check of the running (or last) build() reached a verdict on file f: it got
\* past the language test and the error-flag test, and raised no exception.
Decided(f) == rule[f] \in {"1", "2", "3", "4", "5", "fresh"}

\* C3: a source one of whose recorded dependencies is newer than its recorded
\* time is never found fresh by the next build(); when the check reaches a
\* verdict on it the source is stale, when rule 5 gives the verdict the source is
\* then at least as new as the dependency, and a build() that returns success has
\* compiled it exactly once and recorded its new time.
C3_Propagation ==
    call = "build" =>
        \A A \in Sources : trig[A] # {} =>
            /\ rule[A] # "fresh"
            /\ Decided(A) => A \in StalePaths
            /\ rule[A] = "5" => \A B \in trig[A] : mtime[A] >= mtime[B]
            /\ BuildSucceeded =>
                  /\ ncompile[A] = 1
                  /\ A \in DOMAIN data.sources
                  /\ data.sources[A].last_write_time = mtime[A]

\* A build() has returned success after rule 5 found a source stale.
C3_Witness ==
    /\ BuildSucceeded
    /\ \E A \in Sources :
          /\ trig[A] # {}
          /\ rule[A] = "5"
          /\ ncompile[A] = 1
          /\ \A B \in trig[A] : mtime[A] >= mtime[B] /\ mtime[B] > 0

\* The files the Builder was given (add_source_path), as _check_source_path
\* names them.
Registered ==
    UNION {{AbsPath(source_paths[g].path \o <<SLASH>> \o source_paths[g].files[i]) :
               i \in DOMAIN source_paths[g].files} : g \in DOMAIN source_paths}

\* One of the five staleness rules holds of file f before a build() whose check
\* sees flag string `flags` for it.
AnyRule(f, flags) ==
    LET db == Load(data, disk)
        language == GetLanguage(languages, PySliceFrom(f, RFind(f, ".")))
    IN  \/ language # NoLanguage /\ ObjFilename(f, language) \notin objfile[build_type]
        \/ f \notin DOMAIN db.sources
        \/ /\ f \in DOMAIN db.sources
           /\ \/ mtime[f] > db.sources[f].last_write_time
              \/ db.sources[f].flags # flags
              \/ \E x \in db.sources[f].dependencies :
                    Exists(x) /\ mtime[x] > db.sources[f].last_write_time

\* A step that is the check of a build() call.
CheckStep == pc = "idle" /\ call' = "build"

\* C4 as stated: the check returns a file if and only if one of the five rules
\* holds of it.
C4_Original ==
    [][CheckStep =>
         \A f \in Registered :
             (f \in StalePaths') <=> AnyRule(f, flag_seen'[f])]_vars

\* C4: when the check reaches a verdict on a file (its language is registered,
\* the error flag is clear, no recorded dependency that has been deleted makes
\* os.stat raise), it returns the file if and only if one of the five rules holds
\* of it; a file it reaches no verdict on is not returned.
C4_Staleness ==
    [][CheckStep =>
         \A f \in Registered :
             /\ Decided(f)' => ((f \in StalePaths') <=> AnyRule(f, flag_seen'[f]))
             /\ ~Decided(f)' => f \notin StalePaths']_vars

\* A check has found one file stale by rule 5 and the other one fresh.
C4_Witness ==
    /\ call = "build"
    /\ rule[SrcA] = "5"
    /\ rule[SrcC] = "fresh"
    /\ StalePaths = {SrcA}

\* A step that is a link() call.
LinkStep == pc = "idle" /\ call' = "link"

\* link() does nothing and returns non-failure.
LinkNoOp ==
    /\ ~link_called'
    /\ link_ret' = FALSE
    /\ pc' = "idle"
    /\ disk' = disk
    /\ data' = data

\* C5: a link() on a Builder whose error flag is set (a compile failed, a
\* language was unsupported, the worker count was bad) does not invoke the
\* linker, returns non-failure, and leaves the database, its link-error flag
\* included, as it was in memory and on disk.
C5_LinkAfterFailedBuild == [][(LinkStep /\ error) => LinkNoOp]_vars

\* link() was called after a build() that failed, on a Builder that had compiled
\* a file before and would have linked otherwise.
C5_Witness ==
    /\ call = "link"
    /\ lastbuild = "error"
    /\ error
    /\ should_link
    /\ linker # NoLinker
    /\ ~link_called
    /\ link_ret = FALSE

\* C6: a link() that follows an error-free build() that compiled nothing, while
\* the link-error flag on disk is false, does not invoke the linker and returns
\* non-failure.
C6_NothingToLink ==
    [][(LinkStep /\ ~error /\ lastbuild = "nothing" /\ ~PersistedLinkError) =>
         LinkNoOp]_vars

\* C7: after a link attempt that failed, a link() that follows a build() with no
\* stale file invokes the linker again; after a link attempt that succeeded, with
\* nothing compiled since, such a link() does not invoke the linker.
C7_LinkRetry ==
    [][(LinkStep /\ ~error /\ lastbuild = "nothing") =>
         /\ (attempt = "failed" /\ linker # NoLinker) => link_called'
         /\ (attempt = "ok" /\ dirty = {}) => ~link_called']_vars

\* C8: the link-error flag on disk is true exactly when the most recent link
\* attempt (a link() that got past its two no-op tests) failed.
C8_LinkErrorFlag == PersistedLinkError <=> attempt \in {"failed", "nolinker"}

\* The chunk the i-th stale file falls in when the list is cut, in order, into
\* chunks of `cores` files.
ChunkOf(i) == (i - 1) \div cores

\* C11: the jobs submitted are a prefix of the stale list that ends at a chunk
\* boundary (or at the end of the list), and no job of a chunk is submitted before
\* every job of the chunks before it has returned, compiled or not.
C11_ChunkBarrier ==
    (call = "build" /\ cores > 0) =>
        /\ \A i \in DOMAIN jobs : jobs[i] # "new" <=> i <= dispatched
        /\ dispatched = Len(files_to_build) \/ dispatched % cores = 0
        /\ \A i, j \in DOMAIN jobs :
              (ChunkOf(j) < ChunkOf(i) /\ jobs[i] # "new") => jobs[j] = "done"

\* The second chunk of a build with two threads is submitted, after a compile of
\* the first chunk failed.
C11_Witness ==
    /\ pc = "build"
    /\ cores = 2
    /\ Len(files_to_build) = 3
    /\ error
    /\ jobs[1] = "done"
    /\ jobs[2] = "done"
    /\ jobs[3] = "queued"

\* Job j has returned without a successful compile: its compile failed, or it was
\* skipped.
Failed(j) == jobs[j] = "done" /\ okwith[j] = {}

\* C12: a compile that is running when the error flag is set ends only by its
\* own result, and a job whose compile succeeded goes on to record its
\* SourceData and its object, error flag or not; no file of a chunk after one
\* with a failed job is compiled; and a build() with a failed job returns failure.
C12_FailurePropagation ==
    /\ [](call = "build" =>
            /\ \A i, j \in DOMAIN jobs :
                  (cores > 0 /\ ChunkOf(j) < ChunkOf(i) /\ Failed(j)) =>
                      /\ jobs[i] \in {"new", "queued", "done"}
                      /\ okwith[i] = {}
                      /\ ncompile[files_to_build[i].path] = 0
            /\ (pc = "idle" /\ \E j \in DOMAIN jobs : Failed(j)) => build_ret)
    /\ [][\A i \in DOMAIN jobs : (pc = "build" /\ pc' = "build") =>
            /\ jobs[i] = "compiling" =>
                  \/ jobs'[i] = "compiling"
                  \/ jobs'[i] = "compiled" /\ okwith'[i] # {}
                  \/ jobs'[i] = "done" /\ error'
            /\ jobs[i] = "compiled" => jobs'[i] \in {"compiled", "create", "add"}
            /\ jobs[i] \in {"create", "add"} =>
                  \/ jobs'[i] = jobs[i]
                  \/ /\ jobs'[i] = "done"
                     /\ files_to_build[i].path \in DOMAIN data'.sources
                     /\ ObjFilename(files_to_build[i].path, files_to_build[i].lang)
                            \in data'.objects[build_type]]_vars

\* A build() with two threads has returned failure: the first compile of the
\* first chunk failed, its sibling succeeded and is recorded, and the file of the
\* second chunk was not compiled.
C12_Witness ==
    /\ call = "build"
    /\ pc = "idle"
    /\ build_ret
    /\ cores = 2
    /\ Len(files_to_build) = 3
    /\ ncompile[files_to_build[1].path] = 1
    /\ okwith[1] = {}
    /\ okwith[2] # {}
    /\ files_to_build[2].path \in DOMAIN data.sources
    /\ ObjFilename(files_to_build[2].path, files_to_build[2].lang)
           \in data.objects[build_type]
    /\ ncompile[files_to_build[3].path] = 0

\* The files on disk.
OnDisk == Sources \cup present

\* The files the include lines of f name.
Edges(f) == {Scan(f, text[f][k]) : k \in DOMAIN text[f]} \ {NoPath}

\* The files on disk that are reached from the set X of files on disk by include
\* lines of files on disk, X included.
RECURSIVE Closure(_)
Closure(X) ==
    LET Y == X \cup UNION {Edges(d) \cap OnDisk : d \in X}
    IN  IF Y = X THEN X ELSE Closure(Y)

\* The files on disk reached from f by one or more include lines.
Reach(f) == Closure(Edges(f) \cap OnDisk)

\* C13: a file is never in its own dependency set; when A includes just B and B
\* just A, the set of A is {B}.
C13_CycleSafety ==
    resolved.file # NoPath =>
        /\ resolved.file \notin resolved.result
        /\ \A B \in OnDisk \ {resolved.file} :
              (Edges(resolved.file) = {B} /\ Edges(B) = {resolved.file}) =>
                  resolved.result = {B}

\* The number of times file f was opened after the start file was.
ScansOf(f) == Cardinality({k \in 2..Len(resolved.scanned) : resolved.scanned[k] = f})

\* C14: dependency resolution ends on every include graph, with cycles and
\* self-includes too; beyond the start file it opens just the files of its
\* result, each of them once.
C14_Termination ==
    resolved.file # NoPath =>
        /\ resolved.scanned[1] = resolved.file
        /\ \A f \in Files : ScansOf(f) = IF f \in resolved.result THEN 1 ELSE 0

\* A call has returned on a file that includes itself and lies on a cycle.
C14_Witness ==
    /\ resolved.file = SrcA
    /\ text[SrcA] = <<IncludeA, IncludeB, PlainLine>>
    /\ SrcA \in Edges(SrcB)
    /\ resolved.result = {SrcA, SrcB}
    /\ Len(resolved.scanned) = 3

\* No file on disk is reached from itself.
Acyclic == \A f \in OnDisk : f \notin Reach(f)

\* C15: on an acyclic include graph the set returned for a file is the set of files
\* on disk that are reached from it by include lines of files on disk: an include
\* of a file that is not there adds nothing, neither the file nor what it includes.
C15_Closure ==
    (resolved.file # NoPath /\ Acyclic) => resolved.result = Reach(resolved.file)

\* A call has returned on a file that includes b.c by way of a.c and the header
\* that is not there, which includes a.c too.
C15_Witness ==
    /\ resolved.file = SrcB
    /\ HdrH \notin present
    /\ text[SrcB] = <<IncludeH, IncludeA, PlainLine>>
    /\ text[SrcA] = <<IncludeH, PlainLine>>
    /\ text[HdrH] = <<IncludeB, PlainLine>>
    /\ resolved.result = {SrcA}

\* File f was compiled and recorded before and is unchanged since, and the flag
\* string `flags` differs from the one recorded for it.
FlagsDiffer(f, flags) ==
    LET db == Load(data, disk)
        language == GetLanguage(languages, PySliceFrom(f, RFind(f, ".")))
    IN  /\ language # NoLanguage
        /\ ObjFilename(f, language) \in objfile[build_type]
        /\ f \in DOMAIN db.sources
        /\ mtime[f] <= db.sources[f].last_write_time
        /\ db.sources[f].flags # flags

\* C16: when the check reaches a verdict on an unchanged, previously compiled file
\* whose flag string differs from the recorded one, the file is stale (by rule
\* 4); a build() that returns success has compiled it once; and once its compile
\* has succeeded and the job is done the database records, for the file, the flag
\* string that was found to differ.
C16_FlagSensitivity ==
    /\ [][CheckStep =>
            \A f \in Registered :
                (Decided(f)' /\ FlagsDiffer(f, flag_seen'[f])) =>
                    f \in StalePaths' /\ rule'[f] = "4"]_vars
    /\ [](call = "build" =>
            \A i \in DOMAIN jobs :
                LET f == files_to_build[i].path
                IN  rule[f] = "4" =>
                      /\ BuildSucceeded => ncompile[f] = 1
                      /\ (jobs[i] = "done" /\ okwith[i] # {}) =>
                            data.sources[f].flags = flag_seen[f])

\* The extension _check_file cuts from a path.
Ext(f) == PySliceFrom(f, RFind(f, "."))

\* The registered files in the order _check visits them, from group g on.
RECURSIVE CheckOrderFrom(_)
CheckOrderFrom(g) ==
    IF g > Len(source_paths) THEN <<>>
    ELSE [i \in DOMAIN source_paths[g].files |->
             AbsPath(source_paths[g].path \o <<SLASH>> \o source_paths[g].files[i])]
         \o CheckOrderFrom(g + 1)

CheckOrder == CheckOrderFrom(1)

\* The registered files whose extension no registered language knows.
Unsupported == {f \in Registered : GetLanguage(languages, Ext(f)) = NoLanguage}

CompileFailed ==
    \E i \in DOMAIN jobs :
        ncompile[files_to_build[i].path] >= 1 /\ jobs[i] = "done" /\ okwith[i] = {}

\* C19: a build() that returns, returns failure exactly if during the call a
\* compile failed, a registered file had an unsupported language, or the worker
\* count was 0 or less.
C19_ResultCode ==
    (call = "build" /\ pc = "idle") =>
        (build_ret <=> (CompileFailed \/ Unsupported # {} \/ cores <= 0))

\* The jobs of the running (or last) build() whose compiler is the invalid driver
\* and whose compile_file call has returned.
InvalidCompiled ==
    {i \in DOMAIN jobs : /\ files_to_build[i].lang.compiler = "invalid"
                          /\ ncompile[files_to_build[i].path] >= 1
                          /\ jobs[i] \notin {"new", "queued", "compiling"}}

\* C20: with the default invalid compiler every compile signals failure, so a
\* build() that has compiled sets the error flag, returns failure, and records no
\* SourceData for the files it compiled.
C20_NoToolchain ==
    /\ \A i \in InvalidCompiled :
          /\ error
          /\ okwith[i] = {}
          /\ disk0 # NoFile =>
                QuerySource(data, files_to_build[i].path) =
                    QuerySource(Unpickle(disk0), files_to_build[i].path)
          /\ disk0 = NoFile => QuerySource(data, files_to_build[i].path) = NoSourceData
    /\ (call = "build" /\ pc = "idle" /\ InvalidCompiled # {}) => build_ret

\* C21: build() and link() end by returning a boolean whatever the database and
\* the file system hold: no call is left by an exception.
C21_NoExceptions == pc # "raised"

\* A build() call begins: load and _check.
BuildBegins == pc = "idle" /\ call' = "build"

\* A build() call returns: save, and the result.
BuildReturns == call = "build" /\ pc \in {"build", "save"} /\ pc' = "idle" /\ call' = "build"

\* C22: a build() call loads the database once, before its check, and saves it
\* once, when no job is queued or running any more; until that save the database
\* file is as the call found it, and nothing else writes the file.
C22_SingleLoadSave ==
    /\ [][BuildBegins => data' = Load(data, disk) /\ disk0' = disk /\ disk' = disk]_vars
    /\ []((call = "build" /\ pc # "idle") => disk = disk0)
    /\ [][BuildReturns =>
            /\ \A i \in DOMAIN jobs : jobs[i] \in {"new", "done"}
            /\ pc = "build" => \A i \in DOMAIN jobs : jobs[i] = "done"
            /\ data' = data
            /\ disk' = Save(data)]_vars
    /\ [][disk' # disk => BuildReturns]_vars

\* A build() with two threads has compiled and recorded two files or more and has
\* returned: the file holds them all.
C22_Witness ==
    /\ call = "build" /\ pc = "idle" /\ cores >= 2
    /\ Len(files_to_build) >= 2
    /\ \A i \in DOMAIN jobs : files_to_build[i].path \in DOMAIN data.sources
    /\ disk # disk0
    /\ disk = Save(data)

\* A call that ends with save() has returned: build(), or a link() that invoked
\* the Linker driver.
Saved == pc = "idle" /\ (call = "build" \/ (call = "link" /\ link_called))

C24_MissingFileIsEmpty == [][(BuildBegins /\ disk = NoFile) => data' = EmptyData]_vars

\* C25: two registered source files with the same basename in different
\* directories, both compiled, have two different object files.
C25_UniqueObjectNames ==
    \A g, h \in DOMAIN source_paths :
        LET f == source_paths[g].path \o <<SLASH>> \o source_paths[g].files[1]
            k == source_paths[h].path \o <<SLASH>> \o source_paths[h].files[1]
        IN  (/\ source_paths[g].files[1] = source_paths[h].files[1]
             /\ source_paths[g].path # source_paths[h].path
             /\ ObjFilename(f, LangC) \in objfile[build_type]
             /\ ObjFilename(k, LangC) \in objfile[build_type])
            => ObjFilename(f, LangC) # ObjFilename(k, LangC)

\* Database e holds every source key and every object of database d.
Holds(e, d) ==
    /\ DOMAIN d.sources \subseteq DOMAIN e.sources
    /\ \A b \in DOMAIN d.objects :
          b \in DOMAIN e.objects /\ d.objects[b] \subseteq e.objects[b]

\* C26: no step of a build() or link() call removes a key of sources or an element
\* of a build type's object set, in the Builder's database or in the file.
C26_Monotonicity ==
    [][/\ call' # "new" => Holds(data', data)
       /\ (disk # NoFile /\ disk' # NoFile) => Holds(Unpickle(disk'), Unpickle(disk))]_vars

\* C27: a file that a build() found stale by rule 5 and did not compile with
\* success is found stale by the build() that follows with nothing changed on disk.
C27_Rule5Durability ==
    [][\A f \in Sources :
          (/\ call = "build" /\ pc = "idle" /\ rule[f] = "5"
           /\ \A i \in DOMAIN jobs : files_to_build[i].path = f => okwith[i] = {}
           /\ call' = "build")
          => rule'[f] \in {"1", "2", "3", "4", "5"}]_vars

\* C28: every file the check returns carries the first registered language that
\* knows its extension, and two files with the same extension carry the same
\* language.
C28_FirstMatch ==
    \A i \in DOMAIN files_to_build :
        LET sf == files_to_build[i]
        IN  /\ \E k \in DOMAIN languages :
                  /\ languages[k] = sf.lang
                  /\ Ext(sf.path) \in languages[k].file_extentions
                  /\ \A j \in 1..(k - 1) : Ext(sf.path) \notin languages[j].file_extentions
            /\ \A j \in DOMAIN files_to_build :
                  Ext(files_to_build[j].path) = Ext(sf.path) => files_to_build[j].lang = sf.lang

\* Two languages know ".c", the default registered first: a build() has resolved
\* a.c and b.c to the default, and has returned.
C28_Witness ==
    /\ call = "build" /\ pc = "idle"
    /\ languages = NoToolchain \o <<LangC>>
    /\ \E i, j \in DOMAIN files_to_build :
          /\ files_to_build[i].path = SrcA /\ files_to_build[i].lang = LangCInvalid
          /\ files_to_build[j].path = SrcB /\ files_to_build[j].lang = LangCInvalid

\* C29: when a build() has returned with no error, every file its check found
\* stale has a _SourceData with its resolved dependencies, its time on disk and
\* the joined flags of its group, its object name is in the object set of the
\* build type, and the should-link flag is set; every file found fresh has the
\* source entry and the object entries the call loaded.
C29_JobEffect ==
    BuildSucceeded =>
        /\ \A i \in DOMAIN files_to_build :
              LET sf == files_to_build[i]
              IN  /\ QuerySource(data, sf.path) =
                        [dependencies |-> GetDeps(sf.path),
                         last_write_time |-> mtime[sf.path],
                         flags |-> Join(cells[sf.flags])]
                  /\ build_type \in DOMAIN data.objects
                  /\ ObjFilename(sf.path, sf.lang) \in data.objects[build_type]
                  /\ should_link
        /\ \A f \in Sources :
              (rule[f] = "fresh" /\ disk0 # NoFile) =>
                  /\ QuerySource(data, f) = QuerySource(Unpickle(disk0), f)
                  /\ \A b \in BuildTypes :
                        LET o == ObjFilename(f, GetLanguage(languages, Ext(f)))
                            In(d) == b \in DOMAIN d.objects /\ o \in d.objects[b]
                        IN  In(data) <=> In(Unpickle(disk0))

\* C30: a registered source that was written after its object file of the
\* configured build type was last written is found stale by the next build()
\* under that build type (whose check does not fail).
C30_PerBuildType ==
    [][\A f \in Registered :
          (/\ BuildBegins /\ ~error /\ Unsupported = {} /\ pc' # "raised"
           /\ f \in objstale[build_type])
          => f \in StalePaths']_vars

\* C31: when an object of the configured build type was compiled after the last
\* successful link of that build type, a link() that follows an error-free
\* build() invokes the Linker driver.
C31_PendingRelink ==
    [][(/\ LinkStep /\ call = "build" /\ ~error
        /\ build_type \in dirty
        /\ linker # NoLinker
        /\ build_type \in DOMAIN data.objects)
       => link_called']_vars

\* C32: the error flag of a Builder, once set, stays set; a build() that begins
\* with it set returns no file from its check, changes no file time, starts no
\* compiler and returns failure; a link() with it set does not invoke the linker
\* and returns non-failure.
C32_ErrorMonotone ==
    /\ [][(error /\ call' # "new") => error']_vars
    /\ [][(CheckStep /\ error) =>
            /\ files_to_build' = <<>>
            /\ mtime' = mtime
            /\ pc' = "save"]_vars
    /\ [][(pc = "save" /\ call' # "new") =>
            /\ pc' = "idle"
            /\ build_ret'
            /\ ncompile' = NoCompile
            /\ objfile' = objfile]_vars
    /\ [][(LinkStep /\ error) => ~link_called' /\ ~link_ret' /\ pc' = "idle"]_vars

\* The second build() on a Builder whose first build() failed has returned: a.c,
\* written in between, was not classified, and the call returned failure.
C32_Witness ==
    /\ call = "build" /\ pc = "idle"
    /\ nbuilds = 2
    /\ build_ret
    /\ rule[SrcA] = "skipped"
    /\ SrcA \in objstale[build_type]
    /\ files_to_build = <<>>

\* C33: in every build(flags) call the flags the check compares for a file, and
\* the flags its compile is given, are the declared flags of its group (none in
\* the model's projects) followed by the call's flags once.
C33_EffectiveFlags ==
    /\ [][(CheckStep /\ pc' # "raised") =>
            \A f \in Registered : flag_seen'[f] = Join(callflags')]_vars
    /\ [](call = "build" =>
            \A i \in DOMAIN jobs :
                ncompile[files_to_build[i].path] >= 1 => flag_str[i] = Join(callflags))

\* C34: the flag string recorded for a file that a build() compiled with success
\* is the flag string the check of that build() compared for it.
C34_RecordedFlags ==
    call = "build" =>
        \A i \in DOMAIN jobs :
            (jobs[i] \in {"create", "add", "done"} /\ okwith[i] # {}) =>
                QuerySource(data, files_to_build[i].path).flags =
                    flag_seen[files_to_build[i].path]

\* C35: the check of a build() changes the time of a file only if the file is a
\* source for which rule 5 fired (its object exists, its entry is recorded with a
\* time not older than the file's and with the flags compared, and a recorded
\* dependency is newer than that time); it changes no other source's time and
\* no header's, and it leaves the loaded database, the database file and the
\* object files as they are.
C35_CheckSideEffects ==
    [][CheckStep =>
         /\ \A f \in Files :
               mtime'[f] # mtime[f] =>
                   /\ f \in Sources
                   /\ rule'[f] = "5"
                   /\ mtime'[f] = now
         /\ \A f \in Sources :
               rule'[f] = "5" =>
                   LET d == QuerySource(data', f)
                   IN  /\ d # NoSourceData
                       /\ ObjFilename(f, GetLanguage(languages, Ext(f))) \in objfile[build_type]
                       /\ ~(mtime[f] > d.last_write_time)
                       /\ d.flags = flag_seen'[f]
                       /\ \E x \in d.dependencies : mtime[x] > d.last_write_time
         /\ data' = Load(data, disk)
         /\ disk' = disk
         /\ objfile' = objfile
         /\ present' = present]_vars

\* A check has classified a.c by rule 5 and moved its time, and has classified
\* a.cc by rule 1; the header's time is as it was written.
C35_Witness ==
    /\ call = "build" /\ pc = "build"
    /\ rule[SrcA] = "5"
    /\ rule[SrcC] = "1"
    /\ mtime[SrcA] = now
    /\ mtime[HdrH] > QuerySource(data, SrcA).last_write_time
    /\ dispatched = 0

====
